---- MODULE Spec2Model ----
(***************************************************************************)
(* PlaybackController (playbackController.js): the RSVP playback engine.   *)
(*                                                                         *)
(* The object's fields are the variables below.  The browser's timer table *)
(* (setTimeout / clearTimeout) is the variable `timers', the set of the    *)
(* handles of the timeouts that are still pending.  Date.now() is the      *)
(* variable `now'.                                                         *)
(*                                                                         *)
(* Every method body is an operator over a record of the fields (so that   *)
(* one method can call another, as setSpeed calls stop and play); the      *)
(* record's `out' field collects the callbacks the method invokes and the  *)
(* setTimeout calls it makes, in order.  A delay is the rational           *)
(* num / den milliseconds.  Each Call... action is one complete call of a  *)
(* public method; TimerFire is one firing of a pending timeout.  A pending *)
(* timeout may fire at any later moment, in any order with the others.     *)
(*                                                                         *)
(* An observer (a callback field) may call stop() from inside a callback   *)
(* of a tick; which callback, if any, is an input of the actions that run  *)
(* a tick.  Spec has no action that moves the clock: play() and the ticks  *)
(* read `now', and under Spec no time elapses between them.                *)
(***************************************************************************)
EXTENDS Integers, Sequences, FiniteSets, TLC

VARIABLES
    isPlaying,            \* this.isPlaying
    intervalId,           \* this.intervalId (NoTimer for null)
    currentIndex,         \* this.currentIndex
    words,                \* this.words
    currentWPM,           \* this.currentWPM
    mode,                 \* this.mode
    practiceStartSpeed,   \* this.practiceStartSpeed
    practiceRampRate,     \* this.practiceRampRate
    practiceStartTime,    \* this.practiceStartTime (NoTime for null)
    pauseOnPunctuation,   \* this.pauseOnPunctuation
    timers,               \* the handles of the pending timeouts
    now,                  \* Date.now()
    lastOp,               \* history: the method called (or "timer") last
    emitted,              \* history: what that call invoked, in order
    follow,               \* history: what has happened since the last play()
    startIdx,             \* history: currentIndex when the last play() began
    played,               \* history: onWordChange calls since the last play()
    waits,                \* history: the delays handed to setTimeout since
                          \* the last play(), if it found no timeout pending
    callerDone,           \* environment: the caller makes no further call
    history               \* localStorage: the parsed item 'speedReaderHistory'

vars == << isPlaying, intervalId, currentIndex, words, currentWPM, mode,
           practiceStartSpeed, practiceRampRate, practiceStartTime,
           pauseOnPunctuation, timers, now, lastOp, emitted, follow,
           startIdx, played, waits, callerDone, history >>

----------------------------------------------------------------------------
(* Bounds of the model *)

\* longest word list handed to setWords
MaxLen == 2
\* most timeouts pending at once
MaxTimers == 2
\* most steps the clock advances
MaxClock == 3

----------------------------------------------------------------------------
(* Values *)

\* null in this.intervalId; setTimeout's handles are positive integers
NoTimer == 0
\* null in this.practiceStartTime
NoTime == 0
\* what words[i] yields for an index outside the array
Undefined == << >>
\* milliseconds per minute: 60000 / wpm, and elapsed ms / 60000
MsPerMinute == 60000
\* practice-mode speed ceiling
MaxPracticeSpeed == 1000
SpeedStep == 25
DefaultStartSpeed == 200
DefaultRampRate == 10
MinStepSpeed == 100
MaxStepSpeed == 1000

\* a word is the sequence of its characters
PlainWord == <<"a">>
SentenceEnd == <<"b", ".">>
PunctuationChars == { ".", "!", "?", ";" }

\* the text of n words in which plain words and sentence ends alternate,
\* starting with `first'
Text(first, n) ==
    [k \in 1 .. n |-> IF k % 2 = 1 THEN first
                      ELSE IF first = PlainWord THEN SentenceEnd ELSE PlainWord]

\* the word lists the caller hands to setWords: every such text of up to
\* MaxLen words, the empty one included
WordLists == { Text(first, n) : first \in {PlainWord, SentenceEnd}, n \in 0 .. MaxLen }
\* the indices the caller hands to setPosition
PositionInputs == -1 .. (MaxLen + 1)
\* the speeds the caller hands to setSpeed (one below the 100 floor)
SpeedInputs == { 50, 500 }
\* an argument the caller leaves out (it stands for JavaScript's undefined
\* among the numbers a parameter takes)
Omitted == -1
\* the arguments the caller hands to setMode: the mode alone, the default
\* values spelled out, and a practice session that starts just below the
\* ceiling
ModeInputs ==
    { <<"manual", Omitted, Omitted>>, <<"practice", 200, 10>>,
      <<"practice", 990, 60>> }
\* Date.now() when the controller is constructed (any positive time)
ClockEpoch == MsPerMinute

\* the texts of the timing scenarios, words spelled out character by character
StopWord == <<"S", "t", "o", "p", ".">>
InnerDotWord == <<"a", ".", "b">>
FourWords ==
    << <<"T", "h", "e">>, <<"q", "u", "i", "c", "k">>,
       <<"b", "r", "o", "w", "n">>, <<"f", "o", "x">> >>
TimingTexts == { <<StopWord>>, <<InnerDotWord>>, FourWords }

\* the rates and the mode configurations of the timing scenarios
TimingSpeeds == { 250, 300 }
TimingModes ==
    { <<"manual", Omitted, Omitted>>, <<"practice", 200, 60>>,
      <<"practice", 992, 10>> }

\* the clock advances in thirds of a minute
ClockStep == MsPerMinute \div 3
\* the callback, if any, from which the observer calls stop() during a tick
ObserverInputs == { "none", "onWordChange", "onProgressUpdate", "onSpeedChange" }

----------------------------------------------------------------------------
(* The object as a record, and helpers.  Besides the fields, the record     *)
(* carries `out', the callbacks invoked so far by the call in progress, and *)
(* `reentered', whether an observer has called stop() from a callback.      *)

Self ==
    [ isPlaying |-> isPlaying, intervalId |-> intervalId,
      currentIndex |-> currentIndex, words |-> words,
      currentWPM |-> currentWPM, mode |-> mode,
      practiceStartSpeed |-> practiceStartSpeed,
      practiceRampRate |-> practiceRampRate,
      practiceStartTime |-> practiceStartTime,
      pauseOnPunctuation |-> pauseOnPunctuation,
      timers |-> timers, out |-> << >>, reentered |-> FALSE ]

\* invoke a callback: record it
Emit(s, call) == [s EXCEPT !.out = Append(@, call)]

\* this.words[i], 0-based as in the source
WordAt(s, i) == IF i + 1 \in DOMAIN s.words THEN s.words[i + 1] ELSE Undefined

\* /[.!?;]/.test(word): some character of the word is one of . ! ? ;
\* the test anchored at the end of the word, as /[.!?;]$/ would be
TestPunctuation_EndOnly(word) ==
    Len(word) > 0 /\ word[Len(word)] \in PunctuationChars

TestPunctuation(word) == \E k \in DOMAIN word : word[k] \in PunctuationChars

\* clearTimeout(id): a handle that is not pending is ignored
clearTimeout(tm, id) == tm \ {id}

\* setTimeout's return value: a handle no pending timeout has
FreshHandle(tm) == CHOOSE h \in 1 .. (Cardinality(tm) + 1) : h \notin tm

\* Math.round of the non-negative rational num / den
RoundRatio(num, den) == (2 * num + den) \div (2 * den)

----------------------------------------------------------------------------
(* Method bodies *)

\* stop() with `this.isPlaying = false' moved inside `if (this.intervalId)'
stop_FlagInsideGuard(s) ==
    LET s1 == Emit(s, <<"onPlayStateChange", FALSE>>)
        s2 == IF s1.intervalId # NoTimer
              THEN [s1 EXCEPT !.isPlaying = FALSE,
                              !.timers = clearTimeout(@, s1.intervalId),
                              !.intervalId = NoTimer]
              ELSE s1
    IN  Emit(s2, <<"onStop">>)

\* stop()
stop(s) ==
    LET s1 == Emit([s EXCEPT !.isPlaying = FALSE], <<"onPlayStateChange", FALSE>>)
        s2 == IF s1.intervalId # NoTimer
              THEN [s1 EXCEPT !.timers = clearTimeout(@, s1.intervalId),
                              !.intervalId = NoTimer]
              ELSE s1
    IN  Emit(s2, <<"onStop">>)

\* a callback of a tick: the observer is told, and may call stop() from it
Notify(s, call, obs) ==
    LET s1 == Emit(s, call)
    IN  IF obs = call[1] THEN [stop(s1) EXCEPT !.reentered = TRUE] ELSE s1

\* the speed update with Math.floor in place of Math.round
PracticeRamp_Floor(s, obs, clock) ==
    IF s.mode = "practice" /\ s.practiceStartTime # NoTime
    THEN LET elapsedMs == clock - s.practiceStartTime
             num == s.practiceStartSpeed * MsPerMinute + s.practiceRampRate * elapsedMs
             newSpeed == IF num >= MaxPracticeSpeed * MsPerMinute
                         THEN MaxPracticeSpeed
                         ELSE num \div MsPerMinute
             s1 == [s EXCEPT !.currentWPM = newSpeed]
         IN  Notify(s1, <<"onSpeedChange", newSpeed>>, obs)
    ELSE s

\* the practice-mode speed update of a tick
PracticeRamp(s, obs, clock) ==
    IF s.mode = "practice" /\ s.practiceStartTime # NoTime
    THEN LET elapsedMs == clock - s.practiceStartTime
             num == s.practiceStartSpeed * MsPerMinute + s.practiceRampRate * elapsedMs
             newSpeed == IF num >= MaxPracticeSpeed * MsPerMinute
                         THEN MaxPracticeSpeed
                         ELSE RoundRatio(num, MsPerMinute)
             s1 == [s EXCEPT !.currentWPM = newSpeed]
         IN  Notify(s1, <<"onSpeedChange", newSpeed>>, obs)
    ELSE s

\* showNextWord with the end test written `>' instead of `>='
showNextWord_LateEnd(s, obs, clock) ==
    IF s.currentIndex > Len(s.words)
    THEN stop(s)
    ELSE LET word == WordAt(s, s.currentIndex)
             s1 == Notify(s, <<"onWordChange", word, s.currentIndex>>, obs)
             s2 == [s1 EXCEPT !.currentIndex = @ + 1]
             s3 == Notify(s2, <<"onProgressUpdate", s2.currentIndex, Len(s2.words)>>, obs)
             delay == IF s3.pauseOnPunctuation /\ TestPunctuation(word)
                      THEN <<MsPerMinute * 3, s3.currentWPM * 2>>
                      ELSE <<MsPerMinute, s3.currentWPM>>
             s4 == PracticeRamp(s3, obs, clock)
             h == FreshHandle(s4.timers)
             s5 == Emit(s4, <<"setTimeout", h, delay[1], delay[2]>>)
         IN  [s5 EXCEPT !.timers = @ \cup {h}, !.intervalId = h]

\* showNextWord computing the delay after the practice ramp, from the new rate
showNextWord_RampFirst(s, obs, clock) ==
    IF s.currentIndex >= Len(s.words) THEN stop(s)
    ELSE LET word == WordAt(s, s.currentIndex)
             s1 == Notify(s, <<"onWordChange", word, s.currentIndex>>, obs)
             s2 == [s1 EXCEPT !.currentIndex = @ + 1]
             s3 == Notify(s2, <<"onProgressUpdate", s2.currentIndex, Len(s2.words)>>, obs)
             s4 == PracticeRamp(s3, obs, clock)
             delay == IF s4.pauseOnPunctuation /\ TestPunctuation(word)
                      THEN <<MsPerMinute * 3, s4.currentWPM * 2>>
                      ELSE <<MsPerMinute, s4.currentWPM>>
             h == FreshHandle(s4.timers)
             s5 == Emit(s4, <<"setTimeout", h, delay[1], delay[2]>>)
         IN  [s5 EXCEPT !.timers = @ \cup {h}, !.intervalId = h]

\* showNextWord reporting the progress before the word
showNextWord_ProgressFirst(s, obs, clock) ==
    IF s.currentIndex >= Len(s.words) THEN stop(s)
    ELSE LET word == WordAt(s, s.currentIndex)
             s1 == Notify(s, <<"onProgressUpdate", s.currentIndex + 1, Len(s.words)>>, obs)
             s2 == [s1 EXCEPT !.currentIndex = @ + 1]
             s3 == Notify(s2, <<"onWordChange", word, s.currentIndex>>, obs)
             delay == IF s3.pauseOnPunctuation /\ TestPunctuation(word)
                      THEN <<MsPerMinute * 3, s3.currentWPM * 2>>
                      ELSE <<MsPerMinute, s3.currentWPM>>
             s4 == PracticeRamp(s3, obs, clock)
             h == FreshHandle(s4.timers)
             s5 == Emit(s4, <<"setTimeout", h, delay[1], delay[2]>>)
         IN  [s5 EXCEPT !.timers = @ \cup {h}, !.intervalId = h]

\* showNextWord computing every practice delay from the start speed
showNextWord_StartRate(s, obs, clock) ==
    IF s.currentIndex >= Len(s.words) THEN stop(s)
    ELSE LET word == WordAt(s, s.currentIndex)
             s1 == Notify(s, <<"onWordChange", word, s.currentIndex>>, obs)
             s2 == [s1 EXCEPT !.currentIndex = @ + 1]
             s3 == Notify(s2, <<"onProgressUpdate", s2.currentIndex, Len(s2.words)>>, obs)
             rate == IF s3.mode = "practice" THEN s3.practiceStartSpeed
                     ELSE s3.currentWPM
             delay == IF s3.pauseOnPunctuation /\ TestPunctuation(word)
                      THEN <<MsPerMinute * 3, rate * 2>>
                      ELSE <<MsPerMinute, rate>>
             s4 == PracticeRamp(s3, obs, clock)
             h == FreshHandle(s4.timers)
             s5 == Emit(s4, <<"setTimeout", h, delay[1], delay[2]>>)
         IN  [s5 EXCEPT !.timers = @ \cup {h}, !.intervalId = h]

\* a tick that only returns at the end of the list
showNextWord_NoStop(s, obs, clock) ==
    IF s.currentIndex >= Len(s.words)
    THEN s
    ELSE LET word == WordAt(s, s.currentIndex)
             s1 == Notify(s, <<"onWordChange", word, s.currentIndex>>, obs)
             s2 == [s1 EXCEPT !.currentIndex = @ + 1]
             s3 == Notify(s2, <<"onProgressUpdate", s2.currentIndex, Len(s2.words)>>, obs)
             delay == IF s3.pauseOnPunctuation /\ TestPunctuation(word)
                      THEN <<MsPerMinute * 3, s3.currentWPM * 2>>
                      ELSE <<MsPerMinute, s3.currentWPM>>
             s4 == PracticeRamp(s3, obs, clock)
             h == FreshHandle(s4.timers)
             s5 == Emit(s4, <<"setTimeout", h, delay[1], delay[2]>>)
         IN  [s5 EXCEPT !.timers = @ \cup {h}, !.intervalId = h]

\* the closure showNextWord of play(): one tick
showNextWord(s, obs, clock) ==
    IF s.currentIndex >= Len(s.words)
    THEN stop(s)
    ELSE LET word == WordAt(s, s.currentIndex)
             s1 == Notify(s, <<"onWordChange", word, s.currentIndex>>, obs)
             s2 == [s1 EXCEPT !.currentIndex = @ + 1]
             s3 == Notify(s2, <<"onProgressUpdate", s2.currentIndex, Len(s2.words)>>, obs)
             delay == IF s3.pauseOnPunctuation /\ TestPunctuation(word)
                      THEN <<MsPerMinute * 3, s3.currentWPM * 2>>
                      ELSE <<MsPerMinute, s3.currentWPM>>
             s4 == PracticeRamp(s3, obs, clock)
             h == FreshHandle(s4.timers)
             s5 == Emit(s4, <<"setTimeout", h, delay[1], delay[2]>>)
         IN  [s5 EXCEPT !.timers = @ \cup {h}, !.intervalId = h]

\* play() that starts a practice run at the rate in force
play_KeepsRate(s, obs, clock) ==
    IF Len(s.words) = 0
    THEN s
    ELSE LET s1 == Emit([s EXCEPT !.isPlaying = TRUE], <<"onPlayStateChange", TRUE>>)
             s2 == IF s1.mode = "practice"
                   THEN [s1 EXCEPT !.practiceStartTime = clock]
                   ELSE s1
         IN  showNextWord(s2, obs, clock)

\* play()
play(s, obs, clock) ==
    IF Len(s.words) = 0
    THEN s
    ELSE LET s1 == Emit([s EXCEPT !.isPlaying = TRUE], <<"onPlayStateChange", TRUE>>)
             s2 == IF s1.mode = "practice"
                   THEN [s1 EXCEPT !.practiceStartTime = clock,
                                   !.currentWPM = s1.practiceStartSpeed]
                   ELSE s1
         IN  showNextWord(s2, obs, clock)

\* setWords without `this.currentIndex = 0'
setWords_KeepsIndex(s, ws) == [s EXCEPT !.words = ws]

\* setWords that also shows the first word of the new list
setWords_Notifies(s, ws) ==
    LET s1 == [s EXCEPT !.words = ws, !.currentIndex = 0]
    IN  IF Len(ws) > 0
        THEN Emit(Emit(s1, <<"onWordChange", ws[1], 0>>),
                  <<"onProgressUpdate", 0, Len(ws)>>)
        ELSE s1

\* setWords(words)
setWords(s, ws) == [s EXCEPT !.words = ws, !.currentIndex = 0]

\* setPosition with the upper test written `<=' instead of `<'
setPosition_Inclusive(s, index) ==
    IF index >= 0 /\ index <= Len(s.words)
    THEN LET s1 == [s EXCEPT !.currentIndex = index]
             s2 == Emit(s1, <<"onWordChange", WordAt(s1, s1.currentIndex), s1.currentIndex>>)
         IN  Emit(s2, <<"onProgressUpdate", s2.currentIndex, Len(s2.words)>>)
    ELSE s

\* setPosition(index)
setPosition(s, index) ==
    IF index >= 0 /\ index < Len(s.words)
    THEN LET s1 == [s EXCEPT !.currentIndex = index]
             s2 == Emit(s1, <<"onWordChange", WordAt(s1, s1.currentIndex), s1.currentIndex>>)
         IN  Emit(s2, <<"onProgressUpdate", s2.currentIndex, Len(s2.words)>>)
    ELSE s

\* setMode that starts the practice session over at the new start speed
setMode_ResetsRate(s, m, startSpeed, rampRate) ==
    [s EXCEPT !.mode = m,
              !.practiceStartSpeed =
                  IF startSpeed = Omitted THEN DefaultStartSpeed ELSE startSpeed,
              !.practiceRampRate =
                  IF rampRate = Omitted THEN DefaultRampRate ELSE rampRate,
              !.currentWPM =
                  IF startSpeed = Omitted THEN DefaultStartSpeed ELSE startSpeed]

\* setMode(mode, startSpeed = 200, rampRate = 10)
setMode(s, m, startSpeed, rampRate) ==
    [s EXCEPT !.mode = m,
              !.practiceStartSpeed =
                  IF startSpeed = Omitted THEN DefaultStartSpeed ELSE startSpeed,
              !.practiceRampRate =
                  IF rampRate = Omitted THEN DefaultRampRate ELSE rampRate]

\* setSpeed that clamps wpm as increaseSpeed and decreaseSpeed do
setSpeed_Clamped(s, wpm, pause, obs, clock) ==
    LET oldWPM == s.currentWPM
        clamped == IF wpm < 100 THEN 100 ELSE IF wpm > 1000 THEN 1000 ELSE wpm
        s1 == [s EXCEPT !.currentWPM = clamped, !.pauseOnPunctuation = pause]
        s2 == Emit(s1, <<"onSpeedChange", s1.currentWPM, oldWPM>>)
    IN  IF s2.isPlaying /\ s2.mode = "manual"
        THEN play(stop(s2), obs, clock)
        ELSE s2

\* setSpeed(wpm, pauseOnPunctuation)
setSpeed(s, wpm, pause, obs, clock) ==
    LET oldWPM == s.currentWPM
        s1 == [s EXCEPT !.currentWPM = wpm, !.pauseOnPunctuation = pause]
        s2 == Emit(s1, <<"onSpeedChange", s1.currentWPM, oldWPM>>)
    IN  IF s2.isPlaying /\ s2.mode = "manual"
        THEN play(stop(s2), obs, clock)
        ELSE s2

\* increaseSpeed without Math.min
increaseSpeed_Unclamped(s, obs, clock) ==
    setSpeed(s, s.currentWPM + SpeedStep, TRUE, obs, clock)

\* increaseSpeed(): setSpeed is called with one argument, so its second
\* parameter takes its default, true
increaseSpeed(s, obs, clock) ==
    LET sum == s.currentWPM + SpeedStep
        newSpeed == IF sum < MaxStepSpeed THEN sum ELSE MaxStepSpeed
    IN  setSpeed(s, newSpeed, TRUE, obs, clock)

\* decreaseSpeed with a step of 10
decreaseSpeed_ByTen(s, obs, clock) ==
    LET diff == s.currentWPM - 10
        newSpeed == IF diff > MinStepSpeed THEN diff ELSE MinStepSpeed
    IN  setSpeed(s, newSpeed, TRUE, obs, clock)

\* decreaseSpeed()
decreaseSpeed(s, obs, clock) ==
    LET diff == s.currentWPM - SpeedStep
        newSpeed == IF diff > MinStepSpeed THEN diff ELSE MinStepSpeed
    IN  setSpeed(s, newSpeed, TRUE, obs, clock)

\* togglePlayPause()
togglePlayPause(s, obs, clock) ==
    IF s.isPlaying THEN stop(s) ELSE play(s, obs, clock)

\* previousWord that never returns to the first word
previousWord_FromOne(s) ==
    IF s.currentIndex > 1
    THEN LET s1 == [s EXCEPT !.currentIndex = @ - 1]
             s2 == Emit(s1, <<"onWordChange", WordAt(s1, s1.currentIndex), s1.currentIndex>>)
         IN  Emit(s2, <<"onProgressUpdate", s2.currentIndex, Len(s2.words)>>)
    ELSE s

\* previousWord reading the word before it moves
previousWord_StaleWord(s) ==
    IF s.currentIndex > 0
    THEN LET s1 == [s EXCEPT !.currentIndex = @ - 1]
             s2 == Emit(s1, <<"onWordChange", WordAt(s, s.currentIndex), s1.currentIndex>>)
         IN  Emit(s2, <<"onProgressUpdate", s2.currentIndex, Len(s2.words)>>)
    ELSE s

\* previousWord()
previousWord(s) ==
    IF s.currentIndex > 0
    THEN LET s1 == [s EXCEPT !.currentIndex = @ - 1]
             s2 == Emit(s1, <<"onWordChange", WordAt(s1, s1.currentIndex), s1.currentIndex>>)
         IN  Emit(s2, <<"onProgressUpdate", s2.currentIndex, Len(s2.words)>>)
    ELSE s

\* nextWord with the test written against length instead of length - 1
nextWord_OffByOne(s) ==
    IF s.currentIndex < Len(s.words)
    THEN LET s1 == [s EXCEPT !.currentIndex = @ + 1]
             s2 == Emit(s1, <<"onWordChange", WordAt(s1, s1.currentIndex), s1.currentIndex>>)
         IN  Emit(s2, <<"onProgressUpdate", s2.currentIndex, Len(s2.words)>>)
    ELSE s

\* nextWord()
nextWord(s) ==
    IF s.currentIndex < Len(s.words) - 1
    THEN LET s1 == [s EXCEPT !.currentIndex = @ + 1]
             s2 == Emit(s1, <<"onWordChange", WordAt(s1, s1.currentIndex), s1.currentIndex>>)
         IN  Emit(s2, <<"onProgressUpdate", s2.currentIndex, Len(s2.words)>>)
    ELSE s

\* reset() that reports a first word whether or not there is one
reset_ShowsEmpty(s) ==
    LET s1 == [stop(s) EXCEPT !.currentIndex = 0]
        s2 == Emit(s1, <<"onWordChange", WordAt(s1, 0), 0>>)
    IN  Emit(s2, <<"onProgressUpdate", 0, Len(s2.words)>>)

\* reset()
reset(s) ==
    LET s1 == [stop(s) EXCEPT !.currentIndex = 0]
        s2 == IF Len(s1.words) > 0
              THEN Emit(s1, <<"onWordChange", WordAt(s1, 0), 0>>)
              ELSE s1
    IN  Emit(s2, <<"onProgressUpdate", 0, Len(s2.words)>>)

\* getState()
getState(s) ==
    [ isPlaying |-> s.isPlaying, currentIndex |-> s.currentIndex,
      currentWPM |-> s.currentWPM, mode |-> s.mode,
      totalWords |-> Len(s.words),
      practiceStartSpeed |-> s.practiceStartSpeed,
      practiceRampRate |-> s.practiceRampRate ]

----------------------------------------------------------------------------
(* The progress display: UIController *)

\* updateProgress counting words from 0, as SpeedReader.updateProgress does
updateProgress_ZeroBased(currentIdx, totalWords) ==
    [ width |-> IF totalWords > 0
                THEN <<currentIdx * 100, totalWords, "%">>
                ELSE <<0, 1, "%">>,
      wordCount |-> <<currentIdx, " / ", totalWords, " words">> ]

\* UIController.updateProgress(currentIndex, totalWords): the width given to
\* the progress bar, a fraction <<numerator, denominator>> followed by '%',
\* and the pieces of the text given to the word count
updateProgress(currentIdx, totalWords) ==
    [ width |-> IF totalWords > 0
                THEN <<(currentIdx + 1) * 100, totalWords, "%">>
                ELSE <<0, 1, "%">>,
      wordCount |-> <<currentIdx + 1, " / ", totalWords, " words">> ]

\* the progress sink: the observer of onProgressUpdate hands its two
\* arguments to updateProgress
ProgressSink(call) == updateProgress(call[2], call[3])

\* the refresh the host asks for after a load: the snapshot's position and
\* number of words, handed to updateProgress
RefreshDisplay(s) == updateProgress(getState(s).currentIndex, getState(s).totalWords)

----------------------------------------------------------------------------
(* StorageManager: the reading history.  The store holds the history as   *)
(* the sequence that JSON.parse gives back; an item is a record of the     *)
(* type, the title and the timestamp (the metadata plays no part).         *)

HistoryLimit == 10
QuotaKeep == 5
MaxAge == 7 * 24 * 60 * 60 * 1000

\* what is saved: a pasted text (the items of the history then differ by
\* their timestamps)
HistoryInputs == { <<"manual", "Once upon...">> }

\* what localStorage.setItem does: it stores the value, or throws a
\* QuotaExceededError, or throws another error
StoreOutcomes == { "stored", "quota", "error" }

\* history.slice(0, n)
Slice(h, n) == SubSeq(h, 1, IF Len(h) < n THEN Len(h) ELSE n)

\* getHistory(): the saved item parsed, [] when nothing is saved
getHistory(store) == store

\* the history part of cleanup(): the items not older than maxAge
cleanup(store, clock) ==
    SelectSeq(getHistory(store), LAMBDA item : clock - item.timestamp <= MaxAge)

\* handleStorageError(error): for a QuotaExceededError, cleanup() and then
\* the history cut down to its first QuotaKeep items
handleStorageError(store, outcome, clock) ==
    IF outcome = "quota"
    THEN LET cleaned == cleanup(store, clock)
         IN  IF Len(cleaned) > QuotaKeep THEN Slice(cleaned, QuotaKeep) ELSE cleaned
    ELSE store

\* saveToHistory that adds the new item at the end
saveToHistory_AddsLast(store, type, title, clock, outcome) ==
    LET item == [type |-> type, title |-> title, timestamp |-> clock]
        kept == Slice(Append(getHistory(store), item), HistoryLimit)
    IN  IF outcome = "stored" THEN kept
        ELSE handleStorageError(store, outcome, clock)

\* saveToHistory(type, title): the store afterwards
saveToHistory(store, type, title, clock, outcome) ==
    LET item == [type |-> type, title |-> title, timestamp |-> clock]
        kept == Slice(<<item>> \o getHistory(store), HistoryLimit)
    IN  IF outcome = "stored" THEN kept
        ELSE handleStorageError(store, outcome, clock)

----------------------------------------------------------------------------
(* The state machine *)

\* new PlaybackController()
Init ==
    /\ isPlaying = FALSE
    /\ intervalId = NoTimer
    /\ currentIndex = 0
    /\ words = << >>
    /\ currentWPM = 250
    /\ mode = "manual"
    /\ practiceStartSpeed = 200
    /\ practiceRampRate = 10
    /\ practiceStartTime = NoTime
    /\ pauseOnPunctuation = TRUE
    /\ timers = {}
    /\ now = ClockEpoch
    /\ lastOp = "constructor"
    /\ emitted = << >>
    /\ follow = "none"
    /\ startIdx = 0
    /\ played = << >>
    /\ waits = << >>
    /\ callerDone = FALSE
    /\ history = << >>

\* the onWordChange calls among the callbacks `out', as <<word, index>>
WordChanges(out) ==
    LET sel == SelectSeq(out, LAMBDA c : c[1] = "onWordChange")
    IN  [k \in 1 .. Len(sel) |-> <<sel[k][2], sel[k][3]>>]

\* the delays handed to setTimeout among `out', as <<numerator, denominator>>
\* of a number of milliseconds
Delays(out) ==
    LET sel == SelectSeq(out, LAMBDA c : c[1] = "setTimeout")
    IN  [k \in 1 .. Len(sel) |-> <<sel[k][3], sel[k][4]>>]

\* Handles are opaque to the program (it only stores one and hands it back
\* to clearTimeout), so states are kept up to a renaming of the handles:
\* the pending timeouts are renamed 1 .. n, the one this.intervalId holds
\* being n (a handle that is held but no longer pending becomes n + 1).
HeldHandle(s) ==
    IF s.intervalId = NoTimer THEN NoTimer
    ELSE IF s.intervalId \in s.timers THEN Cardinality(s.timers)
    ELSE Cardinality(s.timers) + 1

\* the call returned s: the fields take its values.  An observer input other
\* than "none" is enumerated only where the call reached that callback, and
\* the model stops short of more than MaxTimers pending timeouts.
Return(s, op, obs) ==
    /\ (obs # "none") => s.reentered
    /\ Cardinality(s.timers) <= MaxTimers
    /\ isPlaying' = s.isPlaying
    /\ intervalId' = HeldHandle(s)
    /\ currentIndex' = s.currentIndex
    /\ words' = s.words
    /\ currentWPM' = s.currentWPM
    /\ mode' = s.mode
    /\ practiceStartSpeed' = s.practiceStartSpeed
    /\ practiceRampRate' = s.practiceRampRate
    /\ practiceStartTime' = s.practiceStartTime
    /\ pauseOnPunctuation' = s.pauseOnPunctuation
    /\ timers' = 1 .. Cardinality(s.timers)
    /\ lastOp' = op
    /\ emitted' = s.out
    /\ UNCHANGED << now, callerDone, history >>

\* history: a call other than play(), stop() or a timer firing was made
Interrupted ==
    /\ follow' = "other"
    /\ startIdx' = 0
    /\ played' = << >>
    /\ waits' = << >>

CallSetWords(ws) ==
    /\ Return(setWords(Self, ws), "setWords", "none")
    /\ Interrupted

CallSetPosition(index) ==
    /\ Return(setPosition(Self, index), "setPosition", "none")
    /\ Interrupted

CallSetMode(m, startSpeed, rampRate) ==
    /\ Return(setMode(Self, m, startSpeed, rampRate), "setMode", "none")
    /\ Interrupted

CallSetSpeed(wpm, pause, obs) ==
    /\ Return(setSpeed(Self, wpm, pause, obs, now), "setSpeed", obs)
    /\ Interrupted

CallPlay(obs) ==
    LET s == play(Self, obs, now)
    IN  /\ Return(s, "play", obs)
        /\ follow' = IF s.reentered THEN "other" ELSE "play"
        /\ startIdx' = IF s.reentered THEN 0 ELSE currentIndex
        /\ played' = IF s.reentered THEN << >> ELSE WordChanges(s.out)
        /\ waits' = IF s.reentered \/ timers # {} THEN << >> ELSE Delays(s.out)

CallStop ==
    /\ Return(stop(Self), "stop", "none")
    /\ follow' = IF follow = "play" THEN "stop" ELSE "other"
    /\ startIdx' = IF follow = "play" THEN startIdx ELSE 0
    /\ played' = IF follow = "play" THEN played ELSE << >>
    /\ waits' = << >>

CallIncreaseSpeed(obs) ==
    /\ Return(increaseSpeed(Self, obs, now), "increaseSpeed", obs)
    /\ Interrupted

CallDecreaseSpeed(obs) ==
    /\ Return(decreaseSpeed(Self, obs, now), "decreaseSpeed", obs)
    /\ Interrupted

CallTogglePlayPause(obs) ==
    /\ Return(togglePlayPause(Self, obs, now), "togglePlayPause", obs)
    /\ Interrupted

CallPreviousWord ==
    /\ Return(previousWord(Self), "previousWord", "none")
    /\ Interrupted

CallNextWord ==
    /\ Return(nextWord(Self), "nextWord", "none")
    /\ Interrupted

CallReset ==
    /\ Return(reset(Self), "reset", "none")
    /\ Interrupted

\* the pending timeout t fires: it leaves the timer table and runs showNextWord
TimerFire(t, obs) ==
    /\ t \in timers
    /\ LET s == showNextWord([Self EXCEPT !.timers = clearTimeout(@, t)], obs, now)
           goesOn == follow \in {"play", "ticks"} /\ ~s.reentered
       IN  /\ Return(s, "timer", obs)
           /\ follow' = IF goesOn THEN "ticks"
                         ELSE IF follow = "none" THEN "none" ELSE "other"
           /\ startIdx' = IF goesOn THEN startIdx ELSE 0
           /\ played' = IF goesOn THEN played \o WordChanges(s.out) ELSE << >>
           /\ waits' = IF goesOn /\ waits # << >>
                        THEN waits \o Delays(s.out) ELSE << >>

\* time passes: Date.now() returns a later value
AdvanceClock ==
    /\ now < ClockEpoch + MaxClock * ClockStep
    /\ now' = now + ClockStep
    /\ UNCHANGED << isPlaying, intervalId, currentIndex, words, currentWPM,
                    mode, practiceStartSpeed, practiceRampRate,
                    practiceStartTime, pauseOnPunctuation, timers, lastOp,
                    emitted, follow, startIdx, played, waits, callerDone,
                    history >>

\* storageManager.saveToHistory(type, title); `emitted' records setItem
\* and how it ended
CallSaveToHistory(type, title, outcome) ==
    /\ history' = saveToHistory(history, type, title, now, outcome)
    /\ lastOp' = "saveToHistory"
    /\ emitted' = << <<"localStorage.setItem", outcome>> >>
    /\ UNCHANGED << isPlaying, intervalId, currentIndex, words, currentWPM,
                    mode, practiceStartSpeed, practiceRampRate,
                    practiceStartTime, pauseOnPunctuation, timers, now,
                    follow, startIdx, played, waits, callerDone >>

Next ==
    \/ \E ws \in WordLists : CallSetWords(ws)
    \/ \E index \in PositionInputs : CallSetPosition(index)
    \/ \E a \in ModeInputs : CallSetMode(a[1], a[2], a[3])
    \/ \E wpm \in SpeedInputs, pause \in BOOLEAN, obs \in ObserverInputs :
          CallSetSpeed(wpm, pause, obs)
    \/ \E obs \in ObserverInputs : CallPlay(obs)
    \/ CallStop
    \/ \E obs \in ObserverInputs : CallTogglePlayPause(obs)
    \/ CallPreviousWord
    \/ CallNextWord
    \/ CallReset
    \/ \E t \in timers, obs \in ObserverInputs : TimerFire(t, obs)

Spec == Init /\ [][Next]_vars

\* The speed buttons.  increaseSpeed and decreaseSpeed walk the rate through
\* every multiple of SpeedStep between the limits, so they are explored in a
\* specification of their own, with the calls they interact with (setSpeed,
\* play, stop, the timer) and one off-grid rate given to setSpeed.
StepSpeedInputs == { 990 }

NextSpeed ==
    \/ \E ws \in WordLists : CallSetWords(ws)
    \/ \E wpm \in StepSpeedInputs, pause \in BOOLEAN : CallSetSpeed(wpm, pause, "none")
    \/ \E obs \in ObserverInputs : CallIncreaseSpeed(obs)
    \/ \E obs \in ObserverInputs : CallDecreaseSpeed(obs)
    \/ CallPlay("none")
    \/ CallStop
    \/ \E t \in timers : TimerFire(t, "none")

SpecSpeed == Init /\ [][NextSpeed]_vars

\* Timing.  The delays of the ticks and the practice ramp depend on the
\* words' spelling, on the rate and on the clock, so they are explored in a
\* specification of their own: the timing scenarios' texts, rates and mode
\* configurations, and a clock that advances between the calls.
NextTiming ==
    \/ \E ws \in TimingTexts : CallSetWords(ws)
    \/ \E wpm \in TimingSpeeds, pause \in BOOLEAN : CallSetSpeed(wpm, pause, "none")
    \/ \E a \in TimingModes : CallSetMode(a[1], a[2], a[3])
    \/ CallPlay("none")
    \/ CallStop
    \/ \E t \in timers : TimerFire(t, "none")
    \/ AdvanceClock

SpecTiming == Init /\ [][NextTiming]_vars

\* Running out.  Whether playback ends is a question about the behaviours
\* in which pending timeouts do fire and the caller keeps still: the host
\* runs the callback of every timeout that stays pending (setTimeout, line
\* 148), and the caller may at any point have made its last call.  Until
\* then the calls that start, stop and move playback and switch the mode
\* bring it into the states it runs on from.
TimerStep == \E t \in timers : TimerFire(t, "none")

CallerLeaves ==
    /\ ~callerDone
    /\ callerDone' = TRUE
    /\ UNCHANGED << isPlaying, intervalId, currentIndex, words, currentWPM,
                    mode, practiceStartSpeed, practiceRampRate,
                    practiceStartTime, pauseOnPunctuation, timers, now, lastOp,
                    emitted, follow, startIdx, played, waits, history >>

NextRun ==
    \/ /\ ~callerDone
       /\ \/ \E ws \in WordLists : CallSetWords(ws)
          \/ \E index \in PositionInputs : CallSetPosition(index)
          \/ \E a \in ModeInputs : CallSetMode(a[1], a[2], a[3])
          \/ CallPlay("none")
          \/ CallStop
    \/ CallerLeaves
    \/ TimerStep

\* Weak fairness of the timer step, WF_vars(TimerStep), written out as
\* []<>~ENABLED <<TimerStep>>_vars \/ []<><<TimerStep>>_vars: a timer step
\* is enabled exactly when a timeout is pending (it always changes the
\* pending timeouts or the position).
TimersFire == ([]<>(timers = {})) \/ []<><<TimerStep>>_vars

SpecRun == Init /\ [][NextRun]_vars /\ TimersFire

\* The reading history: saves of the input, with every outcome of the
\* store, as time passes.
NextHistory ==
    \/ \E in \in HistoryInputs, outcome \in StoreOutcomes :
          CallSaveToHistory(in[1], in[2], outcome)
    \/ AdvanceClock

SpecHistory == Init /\ [][NextHistory]_vars

----------------------------------------------------------------------------
(* Well-formedness of the state *)

TypeOK ==
    /\ isPlaying \in BOOLEAN
    /\ words \in WordLists
    /\ timers = 1 .. Cardinality(timers)
    /\ Cardinality(timers) <= MaxTimers
    /\ intervalId \in {NoTimer} \cup timers
    /\ mode \in {"manual", "practice"}
    /\ pauseOnPunctuation \in BOOLEAN
    /\ follow \in {"none", "play", "ticks", "stop", "other"}

----------------------------------------------------------------------------
(* Vocabulary of the claims *)

\* the arguments of the calls on one channel among `out', in order
Calls(out, channel) == SelectSeq(out, LAMBDA c : c[1] = channel)

\* the onPlayStateChange arguments among `out', in order
PlayStates(out) ==
    LET sel == Calls(out, "onPlayStateChange")
    IN  [k \in 1 .. Len(sel) |-> sel[k][2]]

\* the two callbacks that show the word at 0-based index i of ws
Shows(ws, i) ==
    << <<"onWordChange", ws[i + 1], i>>, <<"onProgressUpdate", i, Len(ws)>> >>

\* during the call, an observer's callback of a tick was followed by onStop:
\* the observer called stop() from inside the tick
\* (a tick calls onSpeedChange with one argument, setSpeed with two)
IsTickCallback(c) ==
    \/ c[1] \in { "onWordChange", "onProgressUpdate" }
    \/ c[1] = "onSpeedChange" /\ Len(c) = 2
StoppedFromObserver(out) ==
    \E i, j \in DOMAIN out :
        /\ i < j
        /\ IsTickCallback(out[i])
        /\ out[j][1] = "onStop"

\* the call scheduled a timeout
Scheduled(out) == \E k \in DOMAIN out : out[k][1] = "setTimeout"

\* a step that runs one tick which displays a word: play()'s own call of
\* showNextWord, or a timeout firing, below the end of the list
DisplayingTick ==
    /\ CallPlay("none") \/ \E t \in timers : TimerFire(t, "none")
    /\ currentIndex < Len(words)

\* the rate that tick reads when it computes its delay: play() in practice
\* mode has set it to the start speed before its tick
RateAtTick ==
    IF lastOp' = "play" /\ mode = "practice" THEN practiceStartSpeed
    ELSE currentWPM

\* the start of the practice run that tick measures from
RampStartAtTick ==
    IF lastOp' = "play" /\ mode = "practice" THEN now ELSE practiceStartTime

\* the delay d = <<numerator, denominator>> is 60000 / rate ms, or 1.5 times that
IsBaseDelay(d, rate) == d[1] * rate = 60000 * d[2]
IsLongDelay(d, rate) == 2 * d[1] * rate = 3 * 60000 * d[2]

\* the word has one of . ! ? ; as its last character / as any character
EndsInPunctuation(word) ==
    Len(word) > 0 /\ word[Len(word)] \in { ".", "!", "?", ";" }
ContainsPunctuation(word) ==
    \E k \in 1 .. Len(word) : word[k] \in { ".", "!", "?", ";" }

\* the whole milliseconds of a sequence of delays, added up
RECURSIVE TotalMs(_)
TotalMs(ds) ==
    IF ds = << >> THEN 0 ELSE (Head(ds)[1] \div Head(ds)[2]) + TotalMs(Tail(ds))

----------------------------------------------------------------------------
(* C1 .. C10 *)

\* C1: whenever playback is not running, no scheduled tick is pending
\* (stop() leaves nothing behind that could fire later).
C1_StoppedMeansNothingPending == (~isPlaying) => (timers = {})

\* C2: play() from position 0 on a list of N >= 1 words, followed only by
\* timer firings, has produced exactly the word changes (words[0], 0) ..
\* (words[k-1], k-1) once position is k, in that order; playback stops only
\* at position N, by the tick's own stop() (onPlayStateChange(false), then
\* onStop), and a later firing produces no further word change.
C2_PlayShowsEveryWordOnce ==
    (follow \in {"play", "ticks"} /\ startIdx = 0 /\ Len(words) >= 1) =>
        /\ currentIndex <= Len(words)
        /\ played = [k \in 1 .. currentIndex |-> <<words[k], k - 1>>]
        /\ (~isPlaying) =>
              /\ currentIndex = Len(words)
              /\ emitted = << <<"onPlayStateChange", FALSE>>, <<"onStop">> >>

\* C2 witness: a run from position 0 has shown all MaxLen words and stopped.
C2_Witness ==
    /\ follow = "ticks" /\ startIdx = 0 /\ ~isPlaying
    /\ Len(words) = MaxLen /\ Len(played) = MaxLen /\ lastOp = "timer"

\* C3 as stated: stop() right after play(), no timer having fired, leaves
\* playback stopped with no word change emitted.
C3_StopAfterPlayShowsNothing ==
    (follow = "stop") => (~isPlaying /\ played = << >>)

\* C3 amended: stop() right after play(), no timer having fired, leaves
\* playback stopped, with exactly the one word change play() itself emitted
\* for the word at the position it started from (none when that position is
\* the length of the list, or the list is empty).
C3_StopAfterPlayShowsOneWord ==
    (follow = "stop") =>
        /\ ~isPlaying
        /\ played = IF startIdx < Len(words)
                    THEN << <<words[startIdx + 1], startIdx>> >>
                    ELSE << >>

\* C3 witness: play() then stop(), with a word left to show.
C3_Witness ==
    /\ follow = "stop" /\ lastOp = "stop"
    /\ startIdx < Len(words) /\ Len(played) = 1

\* C4: at most one scheduled tick is pending in every reachable state.
C4_AtMostOnePendingTick == Cardinality(timers) <= 1

\* C5: when an observer calls stop() from a callback of a tick, the tick
\* schedules nothing: afterwards playback is stopped and no tick is pending.
C5_ObserverStopCancelsTick ==
    StoppedFromObserver(emitted) =>
        (~isPlaying /\ ~Scheduled(emitted) /\ timers = {})

\* C6: setSpeed while running in manual mode emits onPlayStateChange(false)
\* then onPlayStateChange(true), ends running with exactly one pending tick,
\* and the next word change is the word that was about to be displayed;
\* otherwise it emits no play-state notification and schedules nothing.
C6_SetSpeedRestarts ==
    [][ \A wpm \in SpeedInputs, pause \in BOOLEAN :
          CallSetSpeed(wpm, pause, "none") =>
            IF isPlaying /\ mode = "manual"
            THEN /\ PlayStates(emitted') = <<FALSE, TRUE>>
                 /\ isPlaying'
                 /\ Cardinality(timers') = 1
                 /\ WordChanges(emitted') = << <<WordAt(Self, currentIndex), currentIndex>> >>
            ELSE /\ PlayStates(emitted') = << >>
                 /\ isPlaying' = isPlaying
                 /\ timers' = timers
                 /\ intervalId' = intervalId ]_vars

\* C7: setPosition(i) with 0 <= i < length sets position to i and emits
\* onWordChange(words[i], i) then onProgressUpdate(i, length), nothing else;
\* with any other i it changes no field and emits nothing.
C7_SetPosition ==
    [][ \A i \in PositionInputs :
          CallSetPosition(i) =>
            IF 0 <= i /\ i < Len(words)
            THEN /\ currentIndex' = i
                 /\ emitted' = Shows(words, i)
            ELSE /\ currentIndex' = currentIndex
                 /\ emitted' = << >> ]_vars

\* C7 witness: setPosition moved the position to the last word of a list of
\* several words.
C7_Witness ==
    /\ lastOp = "setPosition" /\ Len(words) > 1
    /\ currentIndex = Len(words) - 1
    /\ emitted = Shows(words, currentIndex)

\* C8 as stated: with a non-empty list, position is in [0, length).
C8_PositionBelowLength ==
    (Len(words) > 0) => (0 <= currentIndex /\ currentIndex < Len(words))

\* C8 amended: with a non-empty list, position is in [0, length]; it is
\* the length once playback has displayed the last word.
C8_PositionAtMostLength ==
    (Len(words) > 0) => (0 <= currentIndex /\ currentIndex <= Len(words))

\* C8 witness: a tick displayed the last word and left position at length.
C8_Witness ==
    /\ Len(words) > 0 /\ currentIndex = Len(words)
    /\ lastOp = "timer"
    /\ Calls(emitted, "onWordChange") =
           << <<"onWordChange", words[Len(words)], Len(words) - 1>> >>

\* C9: reset() ends at position 0, stopped, with no pending tick; it emits
\* onWordChange(words[0], 0) when the list is non-empty and always
\* onProgressUpdate(0, length).
C9_ResetStopsEverything ==
    (lastOp = "reset") =>
        /\ currentIndex = 0
        /\ ~isPlaying
        /\ timers = {}
        /\ Calls(emitted, "onWordChange") =
               IF Len(words) > 0 THEN << <<"onWordChange", words[1], 0>> >> ELSE << >>
        /\ Calls(emitted, "onProgressUpdate") = << <<"onProgressUpdate", 0, Len(words)>> >>

\* C10: setWords in any state replaces the list and leaves position 0 and
\* playback stopped.
C10_LoadStops ==
    (lastOp = "setWords") => (currentIndex = 0 /\ ~isPlaying)

----------------------------------------------------------------------------
(* C11 .. C20 *)

\* C11: setWords leaves the rate, the mode, the punctuation pause flag and
\* the practice configuration (start speed, ramp rate) unchanged and calls
\* no observer: neither onWordChange nor any other callback.
C11_LoadKeepsPreferences ==
    [][\A ws \in WordLists :
          CallSetWords(ws) =>
              /\ UNCHANGED <<currentWPM, mode, pauseOnPunctuation,
                             practiceStartSpeed, practiceRampRate>>
              /\ emitted' = << >>]_vars

\* a non-empty list was loaded over changed preferences, silently
C11_Witness ==
    /\ lastOp = "setWords"
    /\ Len(words) > 0
    /\ emitted = << >>
    /\ currentWPM # 250
    /\ mode = "practice"
    /\ ~pauseOnPunctuation

\* C12: from a rate in [100, 1000], increaseSpeed() makes the rate
\* min(rate + 25, 1000) and decreaseSpeed() makes it max(rate - 25, 100):
\* a step of exactly 25 short of the limit, the limit itself otherwise, 1000
\* staying 1000 and 100 staying 100; the rate never leaves [100, 1000].
C12_SpeedStepsClamped ==
    [][\A obs \in ObserverInputs :
          /\ (CallIncreaseSpeed(obs) /\ currentWPM \in 100 .. 1000) =>
                 /\ currentWPM' = IF currentWPM <= 975 THEN currentWPM + 25 ELSE 1000
                 /\ currentWPM' \in 100 .. 1000
          /\ (CallDecreaseSpeed(obs) /\ currentWPM \in 100 .. 1000) =>
                 /\ currentWPM' = IF currentWPM >= 125 THEN currentWPM - 25 ELSE 100
                 /\ currentWPM' \in 100 .. 1000]_vars

\* increaseSpeed() at 990 stopped at the limit, 10 further
C12_Witness ==
    /\ lastOp = "increaseSpeed"
    /\ currentWPM = 1000
    /\ emitted[1] = <<"onSpeedChange", 1000, 990>>

\* C13: in every reachable state the rate is within [100, 1000].
C13_RateWithinBounds == currentWPM \in 100 .. 1000

\* C14: setSpeed(wpm, pauseOnPunctuation) stores wpm as given, inside or
\* outside [100, 1000], stores the flag as given, and its first callback is
\* onSpeedChange(wpm, the rate before the call), the only onSpeedChange.
C14_SetSpeedStoresAsGiven ==
    [][(lastOp' = "setSpeed") =>
          \A wpm \in SpeedInputs, pause \in BOOLEAN, obs \in ObserverInputs :
              CallSetSpeed(wpm, pause, obs) =>
                  /\ currentWPM' = wpm
                  /\ pauseOnPunctuation' = pause
                  /\ emitted'[1] = <<"onSpeedChange", wpm, currentWPM>>
                  /\ Len(Calls(emitted', "onSpeedChange")) = 1]_vars

\* a rate below the range was stored, with the flag cleared
C14_Witness ==
    /\ lastOp = "setSpeed"
    /\ currentWPM = 50
    /\ currentWPM \notin 100 .. 1000
    /\ ~pauseOnPunctuation
    /\ emitted[1] = <<"onSpeedChange", 50, 500>>

\* C15: stop() called while isPlaying is already false changes none of
\* position, rate, mode, punctuation pause, isPlaying and the pending-tick
\* handle (so a second stop() changes nothing after the first).
C15_StopIdempotent ==
    [][(CallStop /\ ~isPlaying) =>
          UNCHANGED <<currentIndex, currentWPM, mode, pauseOnPunctuation,
                      isPlaying, intervalId, timers>>]_vars

\* C16: stop() or reset() called while playback is already stopped calls
\* neither onStop nor onPlayStateChange: onStop marks a transition from
\* running to stopped only.
C16_OnStopOnlyOnTransition ==
    [][((CallStop \/ CallReset) /\ ~isPlaying) =>
          /\ Calls(emitted', "onStop") = << >>
          /\ Calls(emitted', "onPlayStateChange") = << >>]_vars

\* the effect of a step to position i: the position, then the two callbacks
StepsTo(i) ==
    /\ currentIndex' = i
    /\ emitted' = Shows(words, i)

\* the effect of a step refused at a boundary: nothing changes, nothing is called
StepRefused ==
    /\ currentIndex' = currentIndex
    /\ emitted' = << >>

\* what previousWord() and nextWord() do, whatever the state
StepEffect ==
    /\ CallPreviousWord =>
           IF currentIndex > 0 THEN StepsTo(currentIndex - 1) ELSE StepRefused
    /\ CallNextWord =>
           IF currentIndex < Len(words) - 1 THEN StepsTo(currentIndex + 1)
           ELSE StepRefused
    /\ (CallPreviousWord \/ CallNextWord) =>
           UNCHANGED <<words, isPlaying, intervalId, timers, currentWPM, mode,
                       pauseOnPunctuation>>

\* C17 as stated: previousWord() and nextWord() step by one with
\* onWordChange then onProgressUpdate, do nothing at the boundary, never
\* change isPlaying or the pending tick, and leave the position of a
\* non-empty list within [0, length - 1].
C17_StepsEndInsideList ==
    [][StepEffect /\
       (((CallPreviousWord \/ CallNextWord) /\ Len(words) > 0) =>
            currentIndex' \in 0 .. (Len(words) - 1))]_vars

\* C17 amended: the same effect, and a position within [0, length - 1]
\* stays within it; from position = length (after the last word was
\* played) nextWord() is refused and the position stays at length.
C17_StepsStayInsideList ==
    [][StepEffect /\
       (((CallPreviousWord \/ CallNextWord)
             /\ currentIndex \in 0 .. (Len(words) - 1)) =>
            currentIndex' \in 0 .. (Len(words) - 1)) /\
       ((CallNextWord /\ currentIndex = Len(words)) => StepRefused)]_vars

\* nextWord() stepped to the last word while playback was running
C17_Witness ==
    /\ lastOp = "nextWord"
    /\ Len(words) = 2
    /\ currentIndex = 1
    /\ emitted = Shows(words, 1)
    /\ isPlaying
    /\ timers # {}

\* C18 as stated: a tick schedules the 1.5x delay exactly when the
\* punctuation pause is enabled and the displayed word ends in . ! ? or ;
C18_LongDelayIffFinalPunctuation ==
    [][DisplayingTick =>
          LET word == words[currentIndex + 1]
              d == Delays(emitted')[1]
          IN  IsLongDelay(d, RateAtTick) <=>
                  (pauseOnPunctuation /\ EndsInPunctuation(word))]_vars

\* C18 amended: a tick schedules the 1.5x delay exactly when the
\* punctuation pause is enabled and the displayed word contains . ! ? or ;
\* anywhere ("a.b" included), and the base delay otherwise.
C18_LongDelayIffAnyPunctuation ==
    [][DisplayingTick =>
          LET word == words[currentIndex + 1]
              d == Delays(emitted')[1]
              long == pauseOnPunctuation /\ ContainsPunctuation(word)
          IN  /\ IsLongDelay(d, RateAtTick) <=> long
              /\ IsBaseDelay(d, RateAtTick) <=> ~long]_vars

\* "a.b" was displayed with the pause enabled and the 1.5x delay scheduled
C18_Witness ==
    /\ lastOp = "play"
    /\ words = <<InnerDotWord>>
    /\ pauseOnPunctuation
    /\ mode = "manual"
    /\ waits # << >>
    /\ IsLongDelay(waits[1], currentWPM)

\* C19: the delay a tick schedules is 60000 / rate ms, the rate being the
\* one in force when the tick computes it (before the practice ramp of the
\* same tick), times 1.5 when the pause is enabled and the word ends in
\* . ! ? ; and plain when the pause is off or the word has none of them;
\* the last word makes no exception.  A play() of ["Stop."] at 300 with the
\* pause on schedules 300 ms; a play() of four unpunctuated words at 250 in
\* manual mode schedules 240 ms after each word and has stopped by itself
\* once 4 x 240 = 960 ms of delays have run out.
C19_DelayIsMinuteOverRate ==
    /\ [][DisplayingTick =>
             LET word == words[currentIndex + 1]
                 d == Delays(emitted')[1]
             IN  /\ Len(Delays(emitted')) = 1
                 /\ (pauseOnPunctuation /\ EndsInPunctuation(word)) =>
                        IsLongDelay(d, RateAtTick)
                 /\ (~pauseOnPunctuation \/ ~ContainsPunctuation(word)) =>
                        IsBaseDelay(d, RateAtTick)]_vars
    /\ []((/\ follow \in {"play", "ticks"} /\ startIdx = 0 /\ waits # << >>
           /\ words = <<StopWord>> /\ pauseOnPunctuation
           /\ mode = "manual" /\ currentWPM = 300) =>
              (Len(waits) = 1 /\ waits[1][1] = 300 * waits[1][2]))
    /\ []((/\ follow \in {"play", "ticks"} /\ startIdx = 0 /\ waits # << >>
           /\ Len(words) = 4
           /\ \A k \in 1 .. 4 : ~ContainsPunctuation(words[k])
           /\ mode = "manual" /\ currentWPM = 250) =>
              /\ Len(waits) = currentIndex
              /\ \A k \in 1 .. Len(waits) : waits[k][1] = 240 * waits[k][2]
              /\ isPlaying \/ (currentIndex = 4 /\ TotalMs(waits) = 960))

\* the four words were played at 250 and playback stopped by itself
C19_Witness ==
    /\ follow = "ticks"
    /\ startIdx = 0
    /\ words = FourWords
    /\ mode = "manual"
    /\ currentWPM = 250
    /\ ~isPlaying
    /\ Len(waits) = 4
    /\ TotalMs(waits) = 960

\* the rate r is round(min(start + ramp * elapsedMs / 60000, 1000)): 1000
\* from 1000 on, the nearest integer below
IsRampedRate(r, start, ramp, elapsedMs) ==
    LET x == start * 60000 + ramp * elapsedMs
        diff == x - r * 60000
    IN  IF x >= 1000 * 60000 THEN r = 1000
        ELSE -60000 < 2 * diff /\ 2 * diff <= 60000

\* what a tick of a practice run does to the rate
RampsRate ==
    /\ IsRampedRate(currentWPM', practiceStartSpeed, practiceRampRate,
                    now - RampStartAtTick)
    /\ currentWPM' <= 1000
    /\ Calls(emitted', "onSpeedChange") = << <<"onSpeedChange", currentWPM'>> >>
    /\ (practiceStartSpeed = 200 /\ practiceRampRate = 60
           /\ now - RampStartAtTick = 60000) => currentWPM' = 260

\* C20 as stated: every tick in practice mode sets the rate to
\* round(min(startRate + rampPerMinute * elapsedMinutes, 1000)), the time
\* being measured from practiceStartTime, and reports it.
C20_EveryPracticeTickRamps ==
    [][(DisplayingTick /\ mode = "practice") => RampsRate]_vars

\* C20 amended: a tick in practice mode does so when practiceStartTime has
\* been set by a play() in practice mode; while it is still null (practice
\* mode was selected after play()) the tick leaves the rate alone and
\* reports nothing.
C20_PracticeTickRampsOnceStarted ==
    [][(DisplayingTick /\ mode = "practice") =>
          IF RampStartAtTick # NoTime THEN RampsRate
          ELSE /\ currentWPM' = currentWPM
               /\ Calls(emitted', "onSpeedChange") = << >>]_vars

\* a tick one minute into a practice run from 200 at 60 per minute set 260
C20_Witness ==
    /\ lastOp = "timer"
    /\ mode = "practice"
    /\ practiceStartSpeed = 200
    /\ practiceRampRate = 60
    /\ now - practiceStartTime = 60000
    /\ currentWPM = 260
    /\ emitted[Len(emitted) - 1] = <<"onSpeedChange", 260>>

----------------------------------------------------------------------------
(* C21 .. C30 *)

\* C21: with an empty list, play() and togglePlayPause() leave isPlaying
\* false, call no observer and schedule nothing; previousWord(), nextWord()
\* and setPosition(i) change nothing and call nothing; reset() calls no
\* onWordChange, and onProgressUpdate(0, 0) once.
C21_EmptyIsInert ==
    [][(Len(words) = 0) =>
          /\ (lastOp' \in {"play", "togglePlayPause"}) =>
                 \A obs \in ObserverInputs :
                     (CallPlay(obs) \/ CallTogglePlayPause(obs)) =>
                         /\ ~isPlaying'
                         /\ emitted' = << >>
                         /\ timers' = timers
          /\ (lastOp' \in {"previousWord", "nextWord", "setPosition"}) =>
                 ((CallPreviousWord \/ CallNextWord
                      \/ \E i \in PositionInputs : CallSetPosition(i)) =>
                     /\ currentIndex' = currentIndex
                     /\ emitted' = << >>)
          /\ CallReset =>
                 /\ Calls(emitted', "onWordChange") = << >>
                 /\ Calls(emitted', "onProgressUpdate") =
                        << <<"onProgressUpdate", 0, 0>> >>]_vars

\* what nextWord() and play() do on a list of one word: nextWord() is
\* refused; a play() from position 0 shows the word once, and the timer
\* firing that follows stops playback
OneWordCommon ==
    /\ [][(Len(words) = 1 /\ CallNextWord) => StepRefused]_vars
    /\ []((Len(words) = 1 /\ follow \in {"play", "ticks"} /\ startIdx = 0) =>
              /\ played = << <<words[1], 0>> >>
              /\ (follow = "ticks") => ~isPlaying)

\* C22 as stated: on a list of one word previousWord() and nextWord() are
\* refused in every reachable state, and play() from position 0 shows the
\* word once and stops on the following tick.
C22_OneWordNeverSteps ==
    /\ OneWordCommon
    /\ [][(Len(words) = 1 /\ CallPreviousWord) => StepRefused]_vars

\* C22 amended: previousWord() is refused at position 0; once a tick has
\* displayed the word (position 1 = length) it steps back to position 0 and
\* shows the word again.
C22_OneWordStepsBackFromEnd ==
    /\ OneWordCommon
    /\ [][(Len(words) = 1 /\ CallPreviousWord) =>
              IF currentIndex = 0 THEN StepRefused ELSE StepsTo(0)]_vars

\* previousWord() stepped back after the only word had been played
C22_Witness ==
    /\ lastOp = "previousWord"
    /\ Len(words) = 1
    /\ currentIndex = 0
    /\ emitted = Shows(words, 0)

\* C23: whenever playback is not running, practiceStartTime is unset.
C23_StartTimeClearedOnStop == (~isPlaying) => (practiceStartTime = NoTime)

\* C24: togglePlayPause() acts as stop() when playing and as play()
\* otherwise: from stopped, on a list with position < length, it leaves
\* playback running with exactly one timeout pending; from running it
\* leaves playback stopped with no timeout pending.
C24_ToggleStartsAndStops ==
    [][(lastOp' = "togglePlayPause" /\ CallTogglePlayPause("none")) =>
          IF isPlaying
          THEN /\ ~isPlaying'
               /\ timers' = {}
               /\ emitted' = << <<"onPlayStateChange", FALSE>>, <<"onStop">> >>
          ELSE (currentIndex < Len(words)) =>
                   /\ isPlaying'
                   /\ Cardinality(timers') = 1
                   /\ emitted'[1] = <<"onPlayStateChange", TRUE>>]_vars

\* C25: setMode(mode, startSpeed, rampRate) stores the mode and the two
\* practice parameters, 200 and 10 standing in for the ones left out, and
\* changes neither isPlaying, the position, the rate, the punctuation
\* pause flag, the pending timeout nor the word list; it calls no observer.
C25_SetModeOnlySetsMode ==
    [][(lastOp' = "setMode") =>
          \A a \in ModeInputs :
              CallSetMode(a[1], a[2], a[3]) =>
                  /\ mode' = a[1]
                  /\ practiceStartSpeed' = IF a[2] = Omitted THEN 200 ELSE a[2]
                  /\ practiceRampRate' = IF a[3] = Omitted THEN 10 ELSE a[3]
                  /\ UNCHANGED <<isPlaying, currentIndex, currentWPM,
                                 pauseOnPunctuation, intervalId, timers,
                                 words, practiceStartTime>>
                  /\ emitted' = << >>]_vars

\* setMode("manual") was called during a practice run at another start
\* speed: the parameters are back at their defaults, playback goes on
C25_Witness ==
    /\ lastOp = "setMode"
    /\ mode = "manual"
    /\ practiceStartSpeed = 200
    /\ practiceRampRate = 10
    /\ currentWPM = 990
    /\ isPlaying
    /\ timers # {}

\* the display d shows word number n of total, and n / total x 100 percent
ShowsWordNumber(d, n, total) ==
    /\ d.wordCount = <<n, " / ", total, " words">>
    /\ d.width[1] * total = n * 100 * d.width[2]
    /\ d.width[3] = "%"

C27_SpeedStepsUndoEachOther ==
    [][(lastOp' \in {"increaseSpeed", "decreaseSpeed"}) =>
          \A obs \in ObserverInputs :
              /\ (CallIncreaseSpeed(obs) /\ currentWPM \in 100 .. 975) =>
                     decreaseSpeed(Self', "none", now').currentWPM = currentWPM
              /\ (CallDecreaseSpeed(obs) /\ currentWPM \in 125 .. 1000) =>
                     increaseSpeed(Self', "none", now').currentWPM = currentWPM]_vars

\* increaseSpeed() went from 250 to 275, and decreaseSpeed() leads back
C27_Witness ==
    /\ lastOp = "increaseSpeed"
    /\ currentWPM = 275
    /\ emitted[1] = <<"onSpeedChange", 275, 250>>
    /\ decreaseSpeed(Self, "none", now).currentWPM = 250

\* C28: from a position p in [0, length - 2], nextWord() then
\* previousWord() ends at p, and the last onWordChange is (words[p], p).
C28_NextThenPreviousReturns ==
    [][(CallNextWord /\ currentIndex \in 0 .. (Len(words) - 2)) =>
          LET s == previousWord(Self')
              shown == WordChanges(s.out)
          IN  /\ currentIndex' = currentIndex + 1
              /\ s.currentIndex = currentIndex
              /\ shown # << >>
              /\ shown[Len(shown)] = <<words[currentIndex + 1], currentIndex>>]_vars

\* nextWord() stepped from the first word to the second, and previousWord()
\* leads back to the first
C28_Witness ==
    /\ lastOp = "nextWord"
    /\ currentIndex = 1
    /\ emitted = Shows(words, 1)
    /\ previousWord(Self).currentIndex = 0
    /\ WordChanges(previousWord(Self).out) = << <<words[1], 0>> >>

\* what the tick of a step has called, in order: play() calls
\* onPlayStateChange(true) before its tick runs
TickCalls == IF lastOp' = "play" THEN Tail(emitted') ELSE emitted'

\* a step that runs one tick at or beyond the end of a list
EndingTick ==
    /\ CallPlay("none") \/ \E t \in timers : TimerFire(t, "none")
    /\ Len(words) > 0
    /\ currentIndex >= Len(words)

\* C29: a tick calls onWordChange(word, i), then onProgressUpdate, then
\* onSpeedChange (in practice mode only), and schedules the next tick after
\* all of them; a tick that finds the position at or beyond the length
\* calls none of them and only stops.
C29_TickNotifiesInOrder ==
    [][(lastOp' \in {"play", "timer"}) =>
          /\ DisplayingTick =>
                 LET e == TickCalls
                 IN  /\ Len(e) \in {3, 4}
                     /\ e[1] = <<"onWordChange", words[currentIndex + 1], currentIndex>>
                     /\ e[2][1] = "onProgressUpdate"
                     /\ (Len(e) = 4) => (e[3][1] = "onSpeedChange" /\ mode = "practice")
                     /\ e[Len(e)][1] = "setTimeout"
          /\ EndingTick =>
                 /\ TickCalls = << <<"onPlayStateChange", FALSE>>, <<"onStop">> >>
                 /\ ~isPlaying'
                 /\ currentIndex' = currentIndex]_vars

\* a practice tick called all three observers and then scheduled the next
C29_Witness ==
    /\ lastOp = "timer"
    /\ mode = "practice"
    /\ Len(emitted) = 4
    /\ emitted[1][1] = "onWordChange"
    /\ emitted[2][1] = "onProgressUpdate"
    /\ emitted[3][1] = "onSpeedChange"
    /\ emitted[4][1] = "setTimeout"

\* the delay d is the one of a word at rate: 60000 / rate, 1.5 times that
\* for a word that takes the punctuation pause
IsDelayAt(d, rate, word) ==
    IF pauseOnPunctuation /\ ContainsPunctuation(word)
    THEN IsLongDelay(d, rate) ELSE IsBaseDelay(d, rate)

\* C30: in practice mode the delay a tick schedules is computed from the
\* rate the tick before it recomputed (and reported), not from the rate
\* the tick itself recomputes: the ramp lags the scheduling by one word.
C30_RampLagsByOneWord ==
    [][((\E t \in timers : TimerFire(t, "none"))
           /\ currentIndex < Len(words)
           /\ mode = "practice"
           /\ lastOp \in {"play", "timer"}
           /\ Calls(emitted, "onSpeedChange") # << >>) =>
          LET before == Calls(emitted, "onSpeedChange")[1][2]
              d == Delays(emitted')[1]
              word == words[currentIndex + 1]
          IN  /\ before = currentWPM
              /\ IsDelayAt(d, before, word)
              /\ (currentWPM' # before) => ~IsDelayAt(d, currentWPM', word)]_vars

\* the third tick of a practice run from 200 at 60 per minute, 40 s in,
\* recomputed 240 and scheduled its delay at the 220 of the second tick
C30_Witness ==
    /\ lastOp = "timer"
    /\ mode = "practice"
    /\ words = FourWords
    /\ practiceStartSpeed = 200
    /\ practiceRampRate = 60
    /\ Len(waits) = 3
    /\ IsBaseDelay(waits[2], 200)
    /\ IsBaseDelay(waits[3], 220)
    /\ currentWPM = 240

----------------------------------------------------------------------------
(* C31 .. C39 *)

\* C31: play() on a non-empty list in practice mode sets the rate to the
\* start speed and takes the start time from the clock before its first
\* word is shown, whatever rate was in force: the first delay is computed
\* from the start speed.  play() in manual mode leaves the rate (and the
\* start time) alone.
C31_PracticePlayStartsAtStartRate ==
    [][(lastOp' = "play" /\ CallPlay("none") /\ Len(words) > 0) =>
          IF mode = "practice"
          THEN /\ practiceStartTime' = now
               /\ currentWPM' = practiceStartSpeed
               /\ Calls(emitted', "onSpeedChange") \in
                      { << >>, << <<"onSpeedChange", practiceStartSpeed>> >> }
               /\ (currentIndex < Len(words)) =>
                      /\ emitted'[2] = <<"onWordChange", words[currentIndex + 1], currentIndex>>
                      /\ IsDelayAt(Delays(emitted')[1], practiceStartSpeed,
                                   words[currentIndex + 1])
          ELSE /\ currentWPM' = currentWPM
               /\ practiceStartTime' = practiceStartTime]_vars

\* a practice run was started after the clock had advanced, from a rate
\* that setSpeed had set: the rate is the start speed again and the first
\* delay is the start speed's
C31_Witness ==
    /\ lastOp = "play"
    /\ mode = "practice"
    /\ practiceStartSpeed = 200
    /\ currentWPM = 200
    /\ now > ClockEpoch
    /\ practiceStartTime = now
    /\ waits # << >>
    /\ IsBaseDelay(waits[1], 200)

\* playback has come to rest at the end of the list
RunOut ==
    /\ ~isPlaying
    /\ timers = {}
    /\ currentIndex = Len(words)

\* C32: on a finite list, in either mode, from every state that is playing,
\* if from then on the pending timeouts fire and nothing else is called,
\* playback comes to rest: not playing, the position at the length of the
\* list, no timeout pending.
C32_PlaybackRunsToTheEnd == (callerDone /\ isPlaying) ~> RunOut

\* a practice run of a whole list has come to rest at its end after the
\* caller's last call
C32_Witness ==
    /\ callerDone
    /\ lastOp = "timer"
    /\ follow = "ticks"
    /\ mode = "practice"
    /\ Len(words) = MaxLen
    /\ Len(played) = MaxLen
    /\ RunOut

\* C33: increaseSpeed() and decreaseSpeed() change only the rate (and
\* restart the tick when playing in manual mode): whichever value
\* pauseOnPunctuation has, they leave it, the mode, the practice
\* configuration and, when they do not restart, the position as they were.
C33_SpeedStepsChangeOnlyRate ==
    [][(lastOp' \in {"increaseSpeed", "decreaseSpeed"}) =>
          /\ pauseOnPunctuation' = pauseOnPunctuation
          /\ mode' = mode
          /\ practiceStartSpeed' = practiceStartSpeed
          /\ practiceRampRate' = practiceRampRate
          /\ practiceStartTime' = practiceStartTime
          /\ ~(isPlaying /\ mode = "manual") => currentIndex' = currentIndex]_vars

\* C34: when stop() ends a run whose last shown word was the one at index
\* i, nextWord() then shows the word at i + 1 (nothing where i is the last
\* index) and previousWord() the word at i - 1 (nothing where i is 0): no
\* word is skipped and the word on display is not shown again.
C34_SteppingContinuesFromShownWord ==
    [][(lastOp' = "stop" /\ CallStop /\ follow \in {"play", "ticks"}
           /\ played # << >>) =>
          LET i == played[Len(played)][2]
              forward == WordChanges(nextWord(Self').out)
              back == WordChanges(previousWord(Self').out)
          IN  /\ forward = IF i + 1 < Len(words)
                           THEN << <<words[i + 2], i + 1>> >> ELSE << >>
              /\ back = IF i > 0 THEN << <<words[i], i - 1>> >> ELSE << >>]_vars

\* C35: whatever (index, total) pair a call has passed to onProgressUpdate
\* (a tick, a step, setPosition, reset), updateProgress renders from it a
\* word number that is at most the total and a percentage that is at most
\* 100.
C35_ProgressWithinTotal ==
    \A k \in DOMAIN emitted :
        (emitted[k][1] = "onProgressUpdate") =>
            LET shown == ProgressSink(emitted[k])
            IN  /\ shown.wordCount[1] <= shown.wordCount[3]
                /\ shown.width[1] <= 100 * shown.width[2]

\* every onWordChange among the callbacks `out' carries an index of the
\* list ws and the word at that index
WordChangesInside(out, ws) ==
    \A k \in DOMAIN out :
        (out[k][1] = "onWordChange") =>
            /\ out[k][3] \in 0 .. (Len(ws) - 1)
            /\ out[k][2] = ws[out[k][3] + 1]

\* the step ran a tick that displayed the last word of the list
TickShowedLastWord ==
    /\ \E k \in DOMAIN emitted' :
           emitted'[k] = <<"onWordChange", words[Len(words)], Len(words) - 1>>
    /\ \E k \in DOMAIN emitted' :
           emitted'[k] = <<"onProgressUpdate", Len(words), Len(words)>>

\* C36: in every reachable state the position is within [0, length], and
\* every onWordChange a call has made carries an index i of the loaded list,
\* 0 <= i < length, and the word at i; a step that brings the position of a
\* non-empty list to its length is a tick that displayed the last word.
\* (On the empty list the position 0 is the length from the start.)
C36_PositionAndWordsInsideList ==
    /\ [](/\ currentIndex \in 0 .. Len(words)
          /\ WordChangesInside(emitted, words))
    /\ [][(/\ Len(words') > 0
           /\ currentIndex' = Len(words')
           /\ (currentIndex # Len(words) \/ words' # words)) =>
              (words' = words /\ TickShowedLastWord)]_vars

\* a timeout's tick displayed the last word of a list of MaxLen words and
\* brought the position to the length
C36_Witness ==
    /\ lastOp = "timer"
    /\ Len(words) = MaxLen
    /\ currentIndex = MaxLen
    /\ emitted[1] = <<"onWordChange", words[MaxLen], MaxLen - 1>>

\* C37: whenever a call or a tick has returned with playback running,
\* exactly one timeout is pending.
C37_RunningMeansOnePending == isPlaying => (Cardinality(timers) = 1)

\* playback of a non-empty list is over: stopped with the position at the
\* length
AtEnd ==
    /\ ~isPlaying
    /\ Len(words) > 0
    /\ currentIndex = Len(words)

\* C38: once playback has run to the end of the list, play() and
\* togglePlayPause() display no word and leave playback stopped with no
\* timeout pending, having called onPlayStateChange(true) and then at once
\* onPlayStateChange(false); while the same list stays loaded, only
\* reset(), setPosition() and previousWord() bring the position below the
\* length again, from where playback can restart.
C38_PlayAtEndShowsNothing ==
    [][/\ (AtEnd /\ lastOp' \in {"play", "togglePlayPause"}) =>
             /\ WordChanges(emitted') = << >>
             /\ Len(emitted') >= 2
             /\ emitted'[1] = <<"onPlayStateChange", TRUE>>
             /\ emitted'[2] = <<"onPlayStateChange", FALSE>>
             /\ ~isPlaying'
             /\ timers' = {}
             /\ currentIndex' = currentIndex
       /\ (AtEnd /\ lastOp' # "setWords" /\ currentIndex' < Len(words')) =>
             lastOp' \in {"reset", "setPosition", "previousWord"}]_vars

\* the items of h carry timestamps that do not increase: newest first
NewestFirst(h) ==
    \A j, k \in DOMAIN h : (j < k) => (h[j].timestamp >= h[k].timestamp)

\* h is what is left of g when items are dropped from its end only
KeepsNewest(h, g) == (Len(h) <= Len(g)) /\ (h = SubSeq(g, 1, Len(h)))

====
